---- MODULE Spec2Model ----
(***************************************************************************)
(* Model of the option-data-collector: the expiry target calculator and    *)
(* the expiry resolver of fetcher.py, and the two-partition snapshot store *)
(* of storage.py (live.db / archive.db) with its retention sweep.          *)
(*                                                                         *)
(* Text is modelled as a sequence of character codes (ASCII), so parsing,  *)
(* formatting and the ordering of strings are computed, not assumed.       *)
(* A calendar date is the tuple <<year, month, day>>.                      *)
(***************************************************************************)
EXTENDS Integers, Sequences, FiniteSets, Bags, TLC

VARIABLES
    \* ---- storage.py: the two databases and one running maintain_db ----
    now,            \* the wall clock: [day, ms, us], see ClockValue
    live,           \* committed rows of live.db / oi_snapshots (set: id is PRIMARY KEY)
    archive,        \* committed rows of archive.db / oi_snapshots_archive (a bag: no key)
    seq,            \* AUTOINCREMENT high-water mark of oi_snapshots.id
    pc,             \* position of maintain_db
    today_dt,       \* maintain_db local: the clock read at line 77
    live_days,      \* maintain_db parameter
    archive_retain_days, \* maintain_db parameter
    to_move_df,     \* maintain_db local: rows read by the SELECT at line 86
    live_tx,        \* rows deleted by conn_live's open transaction (not yet committed)
    arch_tx,        \* open transaction of conn_arch: [ins |-> bag, del |-> bag]
    rowcount,       \* cursor.rowcount of the archive DELETE at line 98
    save_ret,       \* what save_snapshot gave its caller, when the last step was that call
    hist,           \* observation record of the sweeps (never read by the program)
    \* ---- fetcher.py: pure functions under test ----
    fpc,            \* position of the function harness
    arg_now,        \* argument of calculate_target_expiries
    arg_target,     \* argument target_expiry of select_best_expiry
    arg_map,        \* argument expiry_oi_map of select_best_expiry
    ret,            \* returned value (or the exception raised)
    \* ---- fetcher.py: one run of fetch_and_store_all_expiries ----
    cpc,            \* position of fetch_and_store_all_expiries
    asset_no,       \* index in ASSETS of the loop variable asset (line 217)
    cyc_targets,    \* local target_expiries (line 221)
    cyc_map,        \* local expiry_oi_map (line 224)
    cyc_resolved,   \* local resolved_expiries (lines 227-233)
    cyc_spot,       \* local spot_price (line 236)
    cyc_expiry_no,  \* index in resolved_expiries of the loop variable expiry (line 242)
    cyc_df,         \* local df (line 244)
    cyc_log         \* observation record of the run (never read by the program)

storeVars == <<now, live, archive, seq, pc, today_dt, live_days, archive_retain_days,
               to_move_df, live_tx, arch_tx, rowcount, save_ret, hist>>
cycleVars == <<cpc, asset_no, cyc_targets, cyc_map, cyc_resolved, cyc_spot,
               cyc_expiry_no, cyc_df, cyc_log>>
fetchVars == <<fpc, arg_now, arg_target, arg_map, ret, cycleVars>>
vars == <<storeVars, fetchVars>>

-----------------------------------------------------------------------------
(* Calendar: datetime.date as the Python standard library computes it.     *)

IsLeap(y) == (y % 4 = 0) /\ ((y % 100 # 0) \/ (y % 400 = 0))

\* calendar.monthrange(y, m)[1]
DaysInMonth(y, m) ==
    IF m = 2 THEN (IF IsLeap(y) THEN 29 ELSE 28)
    ELSE IF m \in {4, 6, 9, 11} THEN 30 ELSE 31

DaysBeforeYear(y) ==
    LET p == y - 1 IN p * 365 + (p \div 4) - (p \div 100) + (p \div 400)

RECURSIVE DaysBeforeMonth(_, _)
DaysBeforeMonth(y, m) ==
    IF m = 1 THEN 0 ELSE DaysBeforeMonth(y, m - 1) + DaysInMonth(y, m - 1)

\* date.toordinal()
ToOrdinal(dt) == DaysBeforeYear(dt[1]) + DaysBeforeMonth(dt[1], dt[2]) + dt[3]

\* date.fromordinal(n): the inverse of ToOrdinal
FromOrdinal(n) ==
    LET y == CHOOSE yy \in (n \div 366)..((n \div 365) + 1) :
                 DaysBeforeYear(yy) < n /\ n <= DaysBeforeYear(yy + 1)
        r == n - DaysBeforeYear(y)
        m == CHOOSE mm \in 1..12 :
                 DaysBeforeMonth(y, mm) < r /\ r <= DaysBeforeMonth(y, mm) + DaysInMonth(y, mm)
    IN <<y, m, r - DaysBeforeMonth(y, m)>>

\* date.weekday(): Monday = 0 ... Sunday = 6
Weekday(dt) == (ToOrdinal(dt) + 6) % 7

\* date + timedelta(days = n)
AddDays(dt, n) == FromOrdinal(ToOrdinal(dt) + n)

\* date.isoformat() is "YYYY-MM-DD": fixed width, so the text order of two ISO
\* dates is the lexicographic order of <<year, month, day>>.
IsoDateLess(a, b) ==
    \/ a[1] < b[1]
    \/ a[1] = b[1] /\ a[2] < b[2]
    \/ a[1] = b[1] /\ a[2] = b[2] /\ a[3] < b[3]

Abs(x) == IF x < 0 THEN -x ELSE x

-----------------------------------------------------------------------------
(* Text: expiry codes such as "28NOV25" as sequences of ASCII codes.       *)

IsDigit(c) == c \in 48..57
DigitVal(c) == c - 48
Upper(c) == IF c \in 97..122 THEN c - 32 ELSE c

\* Python's order of str: lexicographic by code point, a proper prefix first.
StrLess(a, b) ==
    \E i \in 1..(Len(b)) :
        /\ \A j \in 1..(i - 1) : j <= Len(a) /\ a[j] = b[j]
        /\ \/ i = Len(a) + 1
           \/ i <= Len(a) /\ a[i] < b[i]

\* "JAN" ... "DEC": the %b names of the C locale, upper-cased
MonthAbbr ==
    << <<74, 65, 78>>, <<70, 69, 66>>, <<77, 65, 82>>, <<65, 80, 82>>,
       <<77, 65, 89>>, <<74, 85, 78>>, <<74, 85, 76>>, <<65, 85, 71>>,
       <<83, 69, 80>>, <<79, 67, 84>>, <<78, 79, 86>>, <<68, 69, 67>> >>

\* The value raised/returned when a text is no date.
NoDate == <<>>

\* How many characters the directive %d takes at the head of s:
\* the pattern 3[0-1]|[1-2]\d|0[1-9]|[1-9]| [1-9], alternatives in order.
DayWidth(s) ==
    IF /\ Len(s) >= 2
       /\ \/ s[1] = 51 /\ s[2] \in {48, 49}
          \/ s[1] \in {49, 50} /\ IsDigit(s[2])
          \/ s[1] = 48 /\ s[2] \in 49..57
    THEN 2
    ELSE IF Len(s) >= 1 /\ s[1] \in 49..57 THEN 1
    ELSE IF Len(s) >= 2 /\ s[1] = 32 /\ s[2] \in 49..57 THEN 2
    ELSE 0

\* datetime.strptime(s, "%d%b%y").date(), NoDate where it raises ValueError.
Strptime(s) ==
    LET w == DayWidth(s) IN
    IF w = 0 \/ Len(s) # w + 5 THEN NoDate
    ELSE
        LET d  == IF w = 1 THEN DigitVal(s[1])
                  ELSE (IF s[1] = 32 THEN 0 ELSE DigitVal(s[1])) * 10 + DigitVal(s[2])
            b  == <<Upper(s[w + 1]), Upper(s[w + 2]), Upper(s[w + 3])>>
            ms == {m \in 1..12 : MonthAbbr[m] = b}
        IN IF ms = {} \/ ~IsDigit(s[w + 4]) \/ ~IsDigit(s[w + 5]) THEN NoDate
           ELSE
               LET m  == CHOOSE mm \in ms : TRUE
                   yy == DigitVal(s[w + 4]) * 10 + DigitVal(s[w + 5])
                   y  == IF yy <= 68 THEN 2000 + yy ELSE 1900 + yy
               IN IF d > DaysInMonth(y, m) THEN NoDate ELSE <<y, m, d>>

\* to_deribit_expiry: dt.strftime("%d%b%y").upper()
to_deribit_expiry(dt) ==
    LET yy == dt[1] % 100 IN
    <<48 + (dt[3] \div 10), 48 + (dt[3] % 10)>> \o MonthAbbr[dt[2]]
        \o <<48 + (yy \div 10), 48 + (yy % 10)>>

-----------------------------------------------------------------------------
(* fetcher.py: results of a call.  A call either returns a value or raises. *)

Return(v) == [exc |-> "", val |-> v]
Raise(e)  == [exc |-> e, val |-> <<>>]

\* Python's None as a returned expiry code (no text has a negative code).
None == <<-1>>

\* fetcher.py line 3, `import time`, binds the name time to the module; line 5
\* imports date, timedelta, datetime and timezone from datetime, not time.
\* Calling a module object raises TypeError.
time(h, m) == Raise("TypeError")

\* datetime.time ordering, on <<hour, minute>>
TimeGeq(a, b) == a[1] > b[1] \/ (a[1] = b[1] /\ a[2] >= b[2])

\* calculate_target_expiries(today_dt), today_dt = [date, time]
calculate_target_expiries(dtm) ==
    LET today_date == dtm.date
        d0 == (4 - Weekday(today_date) + 7) % 7
        settlement_time == time(8, 0)
    IN
    IF d0 = 0 /\ settlement_time.exc # "" THEN settlement_time
    ELSE
        LET days_until_friday ==
                IF d0 = 0
                THEN (IF TimeGeq(dtm.time, settlement_time.val) THEN 7 ELSE 0)
                ELSE d0
            target_friday == AddDays(today_date, days_until_friday)
            y == today_date[1]
            m == today_date[2]
            month_end == <<y, m, DaysInMonth(y, m)>>
            ny == IF m = 12 THEN y + 1 ELSE y
            nm == IF m = 12 THEN 1 ELSE m + 1
            next_month_end == <<ny, nm, DaysInMonth(ny, nm)>>
            q_end_month == (((m - 1) \div 3) + 1) * 3
            quarter_end == <<y, q_end_month, DaysInMonth(y, q_end_month)>>
        IN Return(<< to_deribit_expiry(target_friday), to_deribit_expiry(month_end),
                     to_deribit_expiry(next_month_end), to_deribit_expiry(quarter_end) >>)

\* The order of the tuples (delta_days, -oi, expiry) that list.sort() uses.
CandidateLess(a, b) ==
    \/ a[1] < b[1]
    \/ a[1] = b[1] /\ a[2] < b[2]
    \/ a[1] = b[1] /\ a[2] = b[2] /\ StrLess(a[3], b[3])

\* As select_best_expiry, ranking by open interest before distance.
select_best_expiry_OiFirst(target_expiry, expiry_oi_map) ==
    LET target_dt == Strptime(target_expiry) IN
    IF target_dt = NoDate THEN Return(None)
    ELSE
        LET candidates ==
                { << -expiry_oi_map[expiry],
                     Abs(ToOrdinal(Strptime(expiry)) - ToOrdinal(target_dt)), expiry >> :
                  expiry \in {k \in DOMAIN expiry_oi_map : Strptime(k) # NoDate} }
        IN IF candidates = {} THEN Return(None)
           ELSE Return((CHOOSE c \in candidates :
                           \A o \in candidates : o = c \/ CandidateLess(c, o))[3])

\* As select_best_expiry, without the try/except around the parse of a key.
select_best_expiry_NoCatch(target_expiry, expiry_oi_map) ==
    LET target_dt == Strptime(target_expiry) IN
    IF target_dt = NoDate THEN Return(None)
    ELSE IF \E k \in DOMAIN expiry_oi_map : Strptime(k) = NoDate
    THEN Raise("ValueError")
    ELSE
        LET candidates ==
                { << Abs(ToOrdinal(Strptime(expiry)) - ToOrdinal(target_dt)),
                     -expiry_oi_map[expiry], expiry >> :
                  expiry \in DOMAIN expiry_oi_map }
        IN IF candidates = {} THEN Return(None)
           ELSE Return((CHOOSE c \in candidates :
                           \A o \in candidates : o = c \/ CandidateLess(c, o))[3])

\* select_best_expiry(target_expiry, expiry_oi_map); the map is a function
\* from its keys (texts) to the aggregate open interest.
select_best_expiry(target_expiry, expiry_oi_map) ==
    LET target_dt == Strptime(target_expiry) IN
    IF target_dt = NoDate THEN Return(None)
    ELSE
        LET candidates ==
                { << Abs(ToOrdinal(Strptime(expiry)) - ToOrdinal(target_dt)),
                     -expiry_oi_map[expiry], expiry >> :
                  expiry \in {k \in DOMAIN expiry_oi_map : Strptime(k) # NoDate} }
        IN IF candidates = {} THEN Return(None)
           ELSE Return((CHOOSE c \in candidates :
                           \A o \in candidates : o = c \/ CandidateLess(c, o))[3])

-----------------------------------------------------------------------------
(* Bounds of the model.                                                    *)

MaxDay == 2
MaxMs == 1
MaxUs == 0
MaxRows == 2
MaxBatch == 2
MaxLiveDays == 1
MaxArchiveDays == 2
MaxCrashes == 1

-----------------------------------------------------------------------------
(* Sample texts.                                                           *)

Code_28NOV25 == <<50, 56, 78, 79, 86, 50, 53>>
Code_25NOV25 == <<50, 53, 78, 79, 86, 50, 53>>
Code_1DEC25 == <<49, 68, 69, 67, 50, 53>>
Code_5DEC25 == <<53, 68, 69, 67, 50, 53>>
Code_30NOV25 == <<51, 48, 78, 79, 86, 50, 53>>
Code_26DEC25 == <<50, 54, 68, 69, 67, 50, 53>>
Code_31NOV25 == <<51, 49, 78, 79, 86, 50, 53>>
Code_28XYZ25 == <<50, 56, 88, 89, 90, 50, 53>>
Code_PERPETUAL == <<80, 69, 82, 80, 69, 84, 85, 65, 76>>

-----------------------------------------------------------------------------
(* storage.py: the clock and the text of a timestamp.                      *)
(*                                                                         *)
(* The clock is [day, ms, us]: the day counted from StartDate, and within  *)
(* the day the millisecond and the microsecond inside it.  The hour,       *)
(* minute and second of the day are not modelled: the fraction of a second *)
(* is what the two isoformat() calls print differently.                    *)

StartDate == <<2025, 11, 27>>

DateOfDay(n) == AddDays(StartDate, n)

\* datetime.utcnow().isoformat(timespec="milliseconds"): always "....mmm",
\* the microseconds cut off.  A stored timestamp is <<day, ms>>.
StampMs(t) == <<t.day, t.ms>>

\* (today_dt - timedelta(days = n)), before it is formatted
MinusDays(t, n) == [day |-> t.day - n, ms |-> t.ms, us |-> t.us]

\* SQLite's   timestamp < ?   on TEXT, the parameter being c.isoformat() of an
\* aware datetime: "...SS.mmmuuu+00:00", or "...SS+00:00" when the microsecond
\* field of c is 0.  A stored "...SS.mmm" that is a prefix of the parameter
\* sorts before it; "." sorts after "+".
TextTsLess(ts, c) ==
    \/ ts[1] < c.day
    \/ /\ ts[1] = c.day
       /\ ~(c.ms = 0 /\ c.us = 0)
       /\ ts[2] <= c.ms

-----------------------------------------------------------------------------
(* storage.py: rows and the two tables.                                    *)

\* What get_deribit_options hands to save_snapshot: rows of a DataFrame,
\* here the columns Expiry, Instrument, Strike, Type and OI (the Greeks and IV
\* are carried like Strike and OI).
FetchedRows ==
    { [Expiry |-> Code_28NOV25, Instrument |-> "BTC-28NOV25-90000-C",
       Strike |-> 90000, Type |-> "call", OI |-> 100],
      [Expiry |-> Code_5DEC25,  Instrument |-> "BTC-5DEC25-90000-C",
       Strike |-> 90000, Type |-> "call", OI |-> 500] }

Batches == UNION { [1..n -> FetchedRows] : n \in 1..MaxBatch }

EmptyTx == [ins |-> EmptyBag, del |-> EmptyBag]

\* As PromoteWhere, with AND for OR.
PromoteWhere_And(r, today_str, cutoff_ts) ==
    IsoDateLess(r.expiry_iso, today_str) /\ TextTsLess(r.timestamp, cutoff_ts)

\* WHERE expiry_iso < ? OR timestamp < ?   (lines 85 and 92)
PromoteWhere(r, today_str, cutoff_ts) ==
    IsoDateLess(r.expiry_iso, today_str) \/ TextTsLess(r.timestamp, cutoff_ts)

\* As PurgeWhere, at or before the limit's day instead of before the limit.
PurgeWhere_WholeDay(r, archive_limit) == r.timestamp[1] <= archive_limit.day

\* WHERE timestamp < ?   (line 98)
PurgeWhere(r, archive_limit) == TextTsLess(r.timestamp, archive_limit)

\* The bag holding one copy of each row of a set.
BagOfSet(S) == [r \in S |-> 1]

\* The sub-bag of the rows of B that satisfy the purge condition.
PurgeSelection(B, archive_limit) ==
    [r \in {x \in BagToSet(B) : PurgeWhere(x, archive_limit)} |-> B[r]]

-----------------------------------------------------------------------------
(* The observation record: what a test harness around the store notes down. *)
(* The program never reads it.                                              *)
(*   stopped, selected : where the last unfinished sweep stopped and the    *)
(*                       rows it had selected ("" while none is pending)    *)
(*   crashes           : how many sweeps have been stopped                  *)
(*   live0, arch0      : the tables when the running sweep began            *)
(*   prev              : the sweep completed just before, while nothing has *)
(*                       been written and the clock has not moved since     *)
(*   exc               : the exception with which the last unfinished sweep *)
(*                       left maintain_db ("" when it was killed)           *)
(*   warned            : the files whose VACUUM failed in the running sweep *)

NoPrev == [valid |-> FALSE, today_dt |-> [day |-> -1, ms |-> 0, us |-> 0], live_days |-> 0,
           archive_retain_days |-> 0, live |-> {}, archive |-> EmptyBag]

HistInit == [stopped |-> "", selected |-> {}, crashes |-> 0,
             live0 |-> {}, arch0 |-> EmptyBag, prev |-> NoPrev,
             exc |-> "", warned |-> {}]

NoCall == [exc |-> "", val |-> -1]

\* The value of a local of maintain_db while maintain_db is not running.
NoClock == [day |-> -1, ms |-> 0, us |-> 0]

-----------------------------------------------------------------------------
(* storage.py: save_snapshot.                                              *)

\* As NewRows, the column oi filled from Strike.
NewRows_OiFromStrike(df, asset, spot_price, ts, first_id) ==
    { [id         |-> first_id + i - 1,
       timestamp  |-> ts,
       asset      |-> asset,
       spot_price |-> spot_price,
       expiry     |-> df[i].Expiry,
       expiry_iso |-> Strptime(df[i].Expiry),
       instrument |-> df[i].Instrument,
       strike     |-> df[i].Strike,
       type       |-> df[i].Type,
       oi         |-> df[i].Strike] : i \in 1..Len(df) }

\* The rows to_sql would insert: columns of line 139, ids from AUTOINCREMENT.
NewRows(df, asset, spot_price, ts, first_id) ==
    { [id         |-> first_id + i - 1,
       timestamp  |-> ts,
       asset      |-> asset,
       spot_price |-> spot_price,
       expiry     |-> df[i].Expiry,
       expiry_iso |-> Strptime(df[i].Expiry),
       instrument |-> df[i].Instrument,
       strike     |-> df[i].Strike,
       type       |-> df[i].Type,
       oi         |-> df[i].OI] : i \in 1..Len(df) }

\* As InsertAccepted, the key being checked inside the batch only.
InsertAccepted_BatchOnly(df, ts, table) ==
    /\ \A i \in 1..Len(df) : df[i].Type \in {"call", "put"}
    /\ \A i, j \in 1..Len(df) : df[i].Instrument = df[j].Instrument => i = j

\* The INSERTs of one to_sql call are accepted by the constraints of the table:
\* CHECK(type IN ('call','put')) (line 31) and UNIQUE(timestamp, instrument)
\* (line 38): no two rows of the batch agree on the pair, and none agrees with
\* a stored row.
InsertAccepted(df, ts, table) ==
    /\ \A i \in 1..Len(df) : df[i].Type \in {"call", "put"}
    /\ \A i, j \in 1..Len(df) : df[i].Instrument = df[j].Instrument => i = j
    /\ \A i \in 1..Len(df) :
           ~\E r \in table : r.timestamp = ts /\ r.instrument = df[i].Instrument

\* As save_snapshot, each INSERT committed on its own: the rows before the
\* first refused one stay.
save_snapshot_RowByRow(df, asset, spot_price) ==
    /\ LET ts == StampMs(now)
           ok(n) == InsertAccepted(SubSeq(df, 1, n), ts, live)
           kept == CHOOSE n \in 0..Len(df) :
                       ok(n) /\ (n = Len(df) \/ ~ok(n + 1))
       IN
       IF \E i \in 1..Len(df) : Strptime(df[i].Expiry) = NoDate
       THEN /\ save_ret' = Raise("ValueError")
            /\ UNCHANGED <<live, seq, hist>>
       ELSE /\ live' = live \cup NewRows(SubSeq(df, 1, kept), asset, spot_price, ts, seq + 1)
            /\ seq' = seq + kept
            /\ save_ret' = IF kept = Len(df) THEN Return(Len(df))
                           ELSE Raise("IntegrityError")
            /\ hist' = [hist EXCEPT !.prev = NoPrev]
    /\ UNCHANGED <<now, archive, pc, today_dt, live_days, archive_retain_days,
                   to_move_df, live_tx, arch_tx, rowcount>>

\* save_snapshot(df, asset, spot_price), lines 117-144: the timestamp is read
\* once (line 117); strptime of an Expiry may raise (line 123); then one
\* transaction on live.db, committed by to_sql or rolled back whole when an
\* INSERT fails, the exception going to the caller.
save_snapshot(df, asset, spot_price) ==
    /\ LET ts == StampMs(now) IN
       IF \E i \in 1..Len(df) : Strptime(df[i].Expiry) = NoDate
       THEN /\ save_ret' = Raise("ValueError")
            /\ UNCHANGED <<live, seq, hist>>
       ELSE IF ~InsertAccepted(df, ts, live)
       THEN /\ save_ret' = Raise("IntegrityError")
            /\ UNCHANGED <<live, seq, hist>>
       ELSE /\ live' = live \cup NewRows(df, asset, spot_price, ts, seq + 1)
            /\ seq' = seq + Len(df)
            /\ save_ret' = Return(Len(df))
            /\ hist' = [hist EXCEPT !.prev = NoPrev]
    /\ UNCHANGED <<now, archive, pc, today_dt, live_days, archive_retain_days,
                   to_move_df, live_tx, arch_tx, rowcount>>

\* A call of save_snapshot by a collector beside the sweep.  It needs the write
\* lock of live.db, which maintain_db holds between its DELETE and its commit.
SaveSnapshot(df, asset, spot_price) ==
    /\ pc # "live_commit"
    /\ seq + Len(df) <= MaxRows
    /\ save_snapshot(df, asset, spot_price)
    /\ UNCHANGED fetchVars

-----------------------------------------------------------------------------
(* storage.py: maintain_db, one action per statement that touches a store. *)

\* lines 77-80: read the clock, derive today_str and cutoff_ts
today_str == DateOfDay(today_dt.day)
cutoff_ts == MinusDays(today_dt, live_days)
\* line 96
archive_limit == MinusDays(today_dt, archive_retain_days)

MaintainBegin(ld, ad) ==
    /\ pc = "idle"
    /\ pc' = "select"
    /\ today_dt' = now
    /\ live_days' = ld
    /\ archive_retain_days' = ad
    /\ hist' = [hist EXCEPT !.live0 = live, !.arch0 = archive]
    /\ save_ret' = NoCall
    /\ UNCHANGED <<now, live, archive, seq, to_move_df, live_tx, arch_tx, rowcount,
                   fetchVars>>

\* line 86: pd.read_sql(SELECT * ... WHERE ...); line 88: skip when empty
MaintainSelect ==
    /\ pc = "select"
    /\ to_move_df' = {r \in live : PromoteWhere(r, today_str, cutoff_ts)}
    /\ pc' = IF to_move_df' = {} THEN "purge" ELSE "arch_insert"
    /\ save_ret' = NoCall
    /\ UNCHANGED <<now, live, archive, seq, today_dt, live_days, archive_retain_days,
                   live_tx, arch_tx, rowcount, hist, fetchVars>>

\* As ArchiveInsert, the INSERT writing no row.
ArchiveInsert_NoRows ==
    /\ pc = "arch_insert"
    /\ arch_tx' = EmptyTx
    /\ pc' = "arch_commit"
    /\ save_ret' = NoCall
    /\ UNCHANGED <<now, live, archive, seq, today_dt, live_days, archive_retain_days,
                   to_move_df, live_tx, rowcount, hist, fetchVars>>

\* line 90: to_move_df.to_sql(..., if_exists="append"): plain INSERTs, the table
\* has no key (lines 48-66)
ArchiveInsert ==
    /\ pc = "arch_insert"
    /\ arch_tx' = [arch_tx EXCEPT !.ins = BagOfSet(to_move_df)]
    /\ pc' = "arch_commit"
    /\ save_ret' = NoCall
    /\ UNCHANGED <<now, live, archive, seq, today_dt, live_days, archive_retain_days,
                   to_move_df, live_tx, rowcount, hist, fetchVars>>

\* leaving the inner `with` (line 89): commit of archive.db
ArchiveCommit ==
    /\ pc = "arch_commit"
    /\ archive' = archive (+) arch_tx.ins
    /\ arch_tx' = EmptyTx
    /\ pc' = "live_delete"
    /\ save_ret' = NoCall
    /\ UNCHANGED <<now, live, seq, today_dt, live_days, archive_retain_days,
                   to_move_df, live_tx, rowcount, hist, fetchVars>>

\* As LiveDelete, the DELETE having no WHERE clause.
LiveDelete_All ==
    /\ pc = "live_delete"
    /\ live_tx' = live
    /\ pc' = "live_commit"
    /\ save_ret' = NoCall
    /\ UNCHANGED <<now, live, archive, seq, today_dt, live_days, archive_retain_days,
                   to_move_df, arch_tx, rowcount, hist, fetchVars>>

\* line 92: DELETE FROM oi_snapshots WHERE ..., inside conn_live's transaction
LiveDelete ==
    /\ pc = "live_delete"
    /\ live_tx' = {r \in live : PromoteWhere(r, today_str, cutoff_ts)}
    /\ pc' = "live_commit"
    /\ save_ret' = NoCall
    /\ UNCHANGED <<now, live, archive, seq, today_dt, live_days, archive_retain_days,
                   to_move_df, arch_tx, rowcount, hist, fetchVars>>

\* As LiveCommit, the transaction being rolled back instead of committed.
LiveCommit_RolledBack ==
    /\ pc = "live_commit"
    /\ live' = live
    /\ live_tx' = {}
    /\ pc' = "purge"
    /\ save_ret' = NoCall
    /\ UNCHANGED <<now, archive, seq, today_dt, live_days, archive_retain_days,
                   to_move_df, arch_tx, rowcount, hist, fetchVars>>

\* leaving the outer `with` (line 83): commit of live.db
LiveCommit ==
    /\ pc = "live_commit"
    /\ live' = live \ live_tx
    /\ live_tx' = {}
    /\ pc' = "purge"
    /\ save_ret' = NoCall
    /\ UNCHANGED <<now, archive, seq, today_dt, live_days, archive_retain_days,
                   to_move_df, arch_tx, rowcount, hist, fetchVars>>

\* line 98: DELETE FROM oi_snapshots_archive WHERE timestamp < ?
PurgeDelete ==
    /\ pc = "purge"
    /\ arch_tx' = [arch_tx EXCEPT !.del = PurgeSelection(archive, archive_limit)]
    /\ rowcount' = BagCardinality(PurgeSelection(archive, archive_limit))
    /\ pc' = "purge_commit"
    /\ save_ret' = NoCall
    /\ UNCHANGED <<now, live, archive, seq, today_dt, live_days, archive_retain_days,
                   to_move_df, live_tx, hist, fetchVars>>

\* As PurgeCommit, the transaction of the DELETE being left open.
PurgeCommit_StillOpen ==
    /\ pc = "purge_commit"
    /\ pc' = "vacuum_live"
    /\ save_ret' = NoCall
    /\ UNCHANGED <<now, live, archive, seq, today_dt, live_days, archive_retain_days,
                   to_move_df, live_tx, arch_tx, rowcount, hist, fetchVars>>

\* leaving the `with` of line 97: commit of archive.db
PurgeCommit ==
    /\ pc = "purge_commit"
    /\ archive' = archive (-) arch_tx.del
    /\ arch_tx' = EmptyTx
    /\ pc' = "vacuum_live"
    /\ save_ret' = NoCall
    /\ UNCHANGED <<now, live, seq, today_dt, live_days, archive_retain_days,
                   to_move_df, live_tx, rowcount, hist, fetchVars>>

\* lines 103-111, path = live_path: VACUUM on a fresh autocommit connection;
\* it rewrites the file and leaves the rows as they are; an exception is caught.
VacuumLive ==
    /\ pc = "vacuum_live"
    /\ pc' = "vacuum_archive"
    /\ save_ret' = NoCall
    /\ UNCHANGED <<now, live, archive, seq, today_dt, live_days, archive_retain_days,
                   to_move_df, live_tx, arch_tx, rowcount, hist, fetchVars>>

\* lines 103-111, path = archive_path
VacuumArchive ==
    /\ pc = "vacuum_archive"
    /\ pc' = "return"
    /\ save_ret' = NoCall
    /\ UNCHANGED <<now, live, archive, seq, today_dt, live_days, archive_retain_days,
                   to_move_df, live_tx, arch_tx, rowcount, hist, fetchVars>>

\* maintain_db returns: its locals are gone
MaintainReturn ==
    /\ pc = "return"
    /\ pc' = "idle"
    /\ today_dt' = NoClock
    /\ live_days' = 0
    /\ archive_retain_days' = 0
    /\ to_move_df' = {}
    /\ rowcount' = 0
    /\ hist' = [hist EXCEPT
                   !.stopped = "", !.selected = {},
                   !.live0 = {}, !.arch0 = EmptyBag,
                   !.exc = "", !.warned = {},
                   !.prev = IF today_dt = now
                            THEN [valid |-> TRUE, today_dt |-> today_dt,
                                  live_days |-> live_days,
                                  archive_retain_days |-> archive_retain_days,
                                  live |-> live, archive |-> archive]
                            ELSE NoPrev]
    /\ save_ret' = NoCall
    /\ UNCHANGED <<now, live, archive, seq, live_tx, arch_tx, fetchVars>>

\* The next statement of phase 1 or 2 raises (sqlite3.OperationalError: the
\* file is locked by another connection, the disk is full).  No try encloses
\* lines 83-100: each `with` rolls its open transaction back and the exception
\* leaves maintain_db; what was committed stays.
MaintainRaises ==
    /\ pc \in {"select", "arch_insert", "arch_commit", "live_delete", "live_commit",
               "purge", "purge_commit"}
    /\ hist.crashes < MaxCrashes
    /\ pc' = "idle"
    /\ live_tx' = {}
    /\ arch_tx' = EmptyTx
    /\ today_dt' = NoClock
    /\ live_days' = 0
    /\ archive_retain_days' = 0
    /\ to_move_df' = {}
    /\ rowcount' = 0
    /\ hist' = [hist EXCEPT !.stopped = pc, !.selected = to_move_df,
                            !.crashes = @ + 1, !.exc = "OperationalError",
                            !.live0 = {}, !.arch0 = EmptyBag, !.prev = NoPrev]
    /\ save_ret' = NoCall
    /\ UNCHANGED <<now, live, archive, seq, fetchVars>>

\* lines 103-111, path = live_path: connect or VACUUM raises (the file is
\* locked); the except of line 110 prints a warning and the loop goes on.
VacuumLiveFails ==
    /\ pc = "vacuum_live"
    /\ pc' = "vacuum_archive"
    /\ hist' = [hist EXCEPT !.warned = @ \cup {"live.db"}]
    /\ save_ret' = NoCall
    /\ UNCHANGED <<now, live, archive, seq, today_dt, live_days, archive_retain_days,
                   to_move_df, live_tx, arch_tx, rowcount, fetchVars>>

\* lines 103-111, path = archive_path, likewise
VacuumArchiveFails ==
    /\ pc = "vacuum_archive"
    /\ pc' = "return"
    /\ hist' = [hist EXCEPT !.warned = @ \cup {"archive.db"}]
    /\ save_ret' = NoCall
    /\ UNCHANGED <<now, live, archive, seq, today_dt, live_days, archive_retain_days,
                   to_move_df, live_tx, arch_tx, rowcount, fetchVars>>

\* The sweep stops before its next statement: the process is killed, or the
\* statement raises (maintain_db catches nothing in phases 1 and 2).  Open
\* transactions are rolled back; what was committed stays.
MaintainStop ==
    /\ pc \in {"select", "arch_insert", "arch_commit", "live_delete", "live_commit",
               "purge", "purge_commit"}
    /\ hist.crashes < MaxCrashes
    /\ pc' = "idle"
    /\ live_tx' = {}
    /\ arch_tx' = EmptyTx
    /\ today_dt' = NoClock
    /\ live_days' = 0
    /\ archive_retain_days' = 0
    /\ to_move_df' = {}
    /\ rowcount' = 0
    /\ hist' = [hist EXCEPT !.stopped = pc, !.selected = to_move_df,
                            !.crashes = @ + 1,
                            !.live0 = {}, !.arch0 = EmptyBag, !.prev = NoPrev]
    /\ save_ret' = NoCall
    /\ UNCHANGED <<now, live, archive, seq, fetchVars>>

\* The clock advances: by a microsecond, to the next millisecond, or to the
\* next day.
ClockAdvances ==
    /\ \/ now.us < MaxUs /\ now' = [now EXCEPT !.us = @ + 1]
       \/ now.ms < MaxMs /\ now' = [now EXCEPT !.ms = @ + 1, !.us = 0]
       \/ now.day < MaxDay /\ now' = [day |-> now.day + 1, ms |-> 0, us |-> 0]
    /\ hist' = IF pc = "idle" THEN [hist EXCEPT !.prev = NoPrev] ELSE hist
    /\ save_ret' = NoCall
    /\ UNCHANGED <<live, archive, seq, pc, today_dt, live_days, archive_retain_days,
                   to_move_df, live_tx, arch_tx, rowcount>>

Tick == ClockAdvances /\ UNCHANGED fetchVars

-----------------------------------------------------------------------------
(* Specifications of the store.                                            *)

Assets == {"BTC"}
SpotPrices == {65000}

\* No run of fetch_and_store_all_expiries.
CycleIdle ==
    /\ cpc = "off"
    /\ asset_no = 0
    /\ cyc_targets = <<>>
    /\ cyc_map = <<>>
    /\ cyc_resolved = <<>>
    /\ cyc_spot = -1
    /\ cyc_expiry_no = 0
    /\ cyc_df = <<>>
    /\ cyc_log = <<>>

FetchIdle ==
    /\ fpc = "off"
    /\ arg_now = <<>>
    /\ arg_target = <<>>
    /\ arg_map = <<>>
    /\ ret = NoCall
    /\ CycleIdle

StoreInit ==
    /\ now = [day |-> 0, ms |-> 0, us |-> 0]
    /\ live = {}
    /\ archive = EmptyBag
    /\ seq = 0
    /\ pc = "idle"
    /\ today_dt = NoClock
    /\ live_days = 0
    /\ archive_retain_days = 0
    /\ to_move_df = {}
    /\ live_tx = {}
    /\ arch_tx = EmptyTx
    /\ rowcount = 0
    /\ save_ret = NoCall
    /\ hist = HistInit

Init == StoreInit /\ FetchIdle

Sweep ==
    \/ \E ld \in 1..MaxLiveDays, ad \in 1..MaxArchiveDays : MaintainBegin(ld, ad)
    \/ MaintainSelect
    \/ ArchiveInsert
    \/ ArchiveCommit
    \/ LiveDelete
    \/ LiveCommit
    \/ PurgeDelete
    \/ PurgeCommit
    \/ VacuumLive
    \/ VacuumArchive
    \/ MaintainReturn

Write == \E df \in Batches, a \in Assets, p \in SpotPrices : SaveSnapshot(df, a, p)

\* The collector and the sweep as two processes on the same files, the sweep
\* possibly stopped part-way.
Next == Tick \/ Write \/ Sweep \/ MaintainStop

Spec == Init /\ [][Next]_vars

\* One process: writes and sweeps one after the other, every sweep completing.
\* The clock is read when an operation begins (lines 77 and 117) and not again,
\* so time that passes during a sweep is time that passes after it.
SeqNext == (pc = "idle" /\ Tick) \/ (pc = "idle" /\ Write) \/ Sweep

SpecSeq == Init /\ [][SeqNext]_vars

\* One process, and sweeps that meet failures: a statement of phase 1 or 2
\* raises, the VACUUM of a file fails.
FailNext ==
    \/ (pc = "idle" /\ Tick)
    \/ (pc = "idle" /\ Write)
    \/ Sweep
    \/ MaintainRaises
    \/ VacuumLiveFails
    \/ VacuumArchiveFails

SpecFail == Init /\ [][FailNext]_vars

-----------------------------------------------------------------------------
(* Properties of the store.                                                *)

LiveIds(L) == {r.id : r \in L}
ArchiveIds(B) == {r.id : r \in BagToSet(B)}

\* C1: no row is lost by phase 1 of a sweep, whatever step it stops at.  While
\* the sweep is between its SELECT and the commit of its purge, and after it
\* has been stopped at any of these steps, every row it selected for promotion
\* is in live.db or in archive.db; and when the DELETE on live.db has been
\* executed, the selected rows are already committed to archive.db.
C1_NoRowLostByPhase1 ==
    /\ pc \in {"arch_insert", "arch_commit", "live_delete", "live_commit",
               "purge", "purge_commit"}
         => \A r \in to_move_df : r \in live \/ BagIn(r, archive)
    /\ (pc = "idle" /\ hist.stopped # "")
         => \A r \in hist.selected : r \in live \/ BagIn(r, archive)
    /\ pc = "live_commit"
         => /\ arch_tx = EmptyTx
            /\ \A r \in to_move_df : BagIn(r, archive)

\* A sweep was stopped after its archive insert had committed and before its
\* live delete committed: the selected rows are in both stores.
C1_Witness ==
    /\ pc = "idle"
    /\ hist.stopped = "live_commit"
    /\ hist.selected # {}
    /\ \A r \in hist.selected : r \in live /\ BagIn(r, archive)

\* C2: a retried sweep after a partial failure is safe.  When a sweep stopped
\* after its archive insert had committed and before its live delete committed,
\* then at the end of the next completed sweep archive.db holds no promoted row
\* twice, and holds once every promoted row that the purge did not remove.
C2_RetryLeavesOneCopy ==
    (pc = "return" /\ hist.stopped \in {"live_delete", "live_commit"})
        => \A r \in hist.selected :
               /\ CopiesIn(r, archive) <= 1
               /\ ~TextTsLess(r.timestamp, archive_limit) => CopiesIn(r, archive) = 1

\* C3: partition membership only follows Live -> Archived -> Purged.  In every
\* step of writes and completed sweeps: a row that leaves live.db is in
\* archive.db; a row that enters archive.db comes from live.db; a row that
\* disappears from both was in archive.db only; no row that existed before
\* enters live.db; and a row that is in neither store stays in neither.
C3_Step ==
    LET L  == LiveIds(live)
        L2 == LiveIds(live')
        A  == ArchiveIds(archive)
        A2 == ArchiveIds(archive')
        known == 1..seq
    IN /\ (L \ L2) \subseteq A2
       /\ (A2 \ A) \subseteq L
       /\ ((L \cup A) \ (L2 \cup A2)) \subseteq (A \ L)
       /\ (L2 \ L) \cap known = {}
       /\ (known \ (L \cup A)) \cap (L2 \cup A2) = {}
       /\ live' \subseteq (live \cup {r \in live' : r.id > seq})
       /\ BagToSet(archive') \subseteq (BagToSet(archive) \cup live)

C3_LiveArchivedPurged == [][C3_Step]_vars

\* One row has been purged (it is in neither store) while another one is
\* archived (in archive.db and no longer in live.db).
C3_Witness ==
    /\ \E i \in 1..seq : i \notin (LiveIds(live) \cup ArchiveIds(archive))
    /\ \E i \in 1..seq : i \in ArchiveIds(archive) \ LiveIds(live)

\* C4: in every reachable state no two rows of live.db have the same
\* (timestamp, instrument) pair.
C4_LiveUnique ==
    \A a, b \in live :
        (a.timestamp = b.timestamp /\ a.instrument = b.instrument) => a = b

\* A write of a pair that is already stored has just been rejected.
C4_Witness ==
    /\ save_ret = Raise("IntegrityError")
    /\ \E r \in live : r.timestamp = StampMs(now)

\* C5: a second sweep in immediate succession (same clock reading, same
\* retention parameters, no write in between) moves no row and purges no row,
\* and leaves both stores as the first sweep left them.
C5_SecondSweepIsNoOp ==
    ( /\ pc = "return"
      /\ hist.prev.valid
      /\ hist.prev.today_dt = today_dt
      /\ hist.prev.live_days = live_days
      /\ hist.prev.archive_retain_days = archive_retain_days )
        => /\ to_move_df = {}
           /\ rowcount = 0
           /\ live = hist.prev.live
           /\ archive = hist.prev.archive

\* The second of two such sweeps has finished, the first having archived rows.
C5_Witness ==
    /\ pc = "return"
    /\ hist.prev.valid
    /\ hist.prev.today_dt = today_dt
    /\ hist.prev.live_days = live_days
    /\ hist.prev.archive_retain_days = archive_retain_days
    /\ hist.prev.archive # EmptyBag
    /\ hist.prev.live # {}

\* The rows of the live store, as the sweep found it, that are expired
\* (expiry_iso before today's date) or aged (timestamp before now less
\* live_days days).
ExpiredOrAged0 ==
    {r \in hist.live0 :
        \/ IsoDateLess(r.expiry_iso, DateOfDay(today_dt.day))
        \/ TextTsLess(r.timestamp, [today_dt EXCEPT !.day = @ - live_days])}

C7_ArchivePurgedToHorizon ==
    pc = "return"
        => LET horizon == [today_dt EXCEPT !.day = @ - archive_retain_days] IN
           /\ \A r \in BagToSet(archive) : ~TextTsLess(r.timestamp, horizon)
           /\ \A r \in ExpiredOrAged0 :
                  TextTsLess(r.timestamp, horizon) => ~BagIn(r, archive)
           /\ \A r \in BagToSet(hist.arch0) :
                  ~TextTsLess(r.timestamp, horizon)
                    => CopiesIn(r, archive) >= CopiesIn(r, hist.arch0)

\* A sweep has completed that purged an old archive row and kept a younger one.
C7_Witness ==
    /\ pc = "return"
    /\ rowcount > 0
    /\ \E r \in BagToSet(hist.arch0) : ~BagIn(r, archive)
    /\ \E r \in BagToSet(hist.arch0) : BagIn(r, archive)

-----------------------------------------------------------------------------
(* fetcher.py: the two pure functions, each called once on an argument     *)
(* drawn from a bounded set.                                               *)

MaxCalDays == 400

CalStart == <<2027, 12, 1>>

\* Clock readings handed to calculate_target_expiries: every day of the range,
\* around the settlement time and at the ends of the day.
SampleTimes == {<<0, 0>>, <<7, 59>>, <<8, 0>>, <<8, 1>>, <<23, 59>>}
SampleNows ==
    { [date |-> AddDays(CalStart, n), time |-> t] : n \in 0..MaxCalDays, t \in SampleTimes }

\* Keys of the listed map: well-formed codes, and texts strptime rejects.
ListedCodes == { Code_28NOV25, Code_25NOV25, Code_1DEC25, Code_5DEC25,
                 Code_31NOV25, Code_PERPETUAL }
MalformedCodes == { Code_31NOV25, Code_PERPETUAL, Code_28XYZ25 }
OiValues == {50, 100, 500}
ListedMaps == UNION { [K -> OiValues] : K \in SUBSET ListedCodes }
Targets == { Code_28NOV25, Code_30NOV25, Code_26DEC25, Code_28XYZ25 }

StoreIdle == UNCHANGED storeVars

CallTargets ==
    /\ fpc = "call_targets"
    /\ ret' = calculate_target_expiries(arg_now)
    /\ fpc' = "done"
    /\ UNCHANGED <<arg_now, arg_target, arg_map, cycleVars>>
    /\ StoreIdle

InitTargets ==
    /\ StoreInit
    /\ fpc = "call_targets"
    /\ arg_now \in SampleNows
    /\ arg_target = <<>>
    /\ arg_map = <<>>
    /\ ret = NoCall
    /\ CycleIdle

SpecTargets == InitTargets /\ [][CallTargets]_vars

CallSelect ==
    /\ fpc = "call_select"
    /\ ret' = select_best_expiry(arg_target, arg_map)
    /\ fpc' = "done"
    /\ UNCHANGED <<arg_now, arg_target, arg_map, cycleVars>>
    /\ StoreIdle

InitResolve ==
    /\ StoreInit
    /\ fpc = "call_select"
    /\ arg_now = <<>>
    /\ arg_target \in Targets
    /\ arg_map \in ListedMaps
    /\ ret = NoCall
    /\ CycleIdle

SpecResolve == InitResolve /\ [][CallSelect]_vars

-----------------------------------------------------------------------------
(* fetcher.py: one run of fetch_and_store_all_expiries.                    *)

\* The asset list the loop of line 217 goes through ("BTC, ETH", line 216).
ASSETS == <<"BTC", "ETH">>

\* The instruments the data source lists (public/get_instruments), in the
\* order of the response.  A name is asset-code-strike-kind: three dashes.
Listing ==
    << [asset |-> "BTC", code |-> Code_25NOV25, name |-> "BTC-25NOV25-90000-C",
        strike |-> 90000, option_type |-> "call", oi |-> 100],
       [asset |-> "BTC", code |-> Code_28NOV25, name |-> "BTC-28NOV25-90000-C",
        strike |-> 90000, option_type |-> "call", oi |-> 100],
       [asset |-> "BTC", code |-> Code_5DEC25, name |-> "BTC-5DEC25-90000-C",
        strike |-> 90000, option_type |-> "call", oi |-> 500],
       [asset |-> "ETH", code |-> Code_25NOV25, name |-> "ETH-25NOV25-3000-C",
        strike |-> 3000, option_type |-> "call", oi |-> 100],
       [asset |-> "ETH", code |-> Code_28NOV25, name |-> "ETH-28NOV25-3000-C",
        strike |-> 3000, option_type |-> "call", oi |-> 100],
       [asset |-> "ETH", code |-> Code_5DEC25, name |-> "ETH-5DEC25-3000-C",
        strike |-> 3000, option_type |-> "call", oi |-> 500] >>

\* a in b, for texts
IsSubstring(a, b) ==
    \E k \in 0..(Len(b) - Len(a)) : \A j \in 1..Len(a) : b[k + j] = a[j]

\* What get_available_expiries_with_oi can give: a map from the listed codes to
\* their summed open interest, or the exception of the request of line 92,
\* which is outside the try.
CycleMaps ==
    { [k \in {Code_28NOV25, Code_5DEC25} |-> IF k = Code_28NOV25 THEN 100 ELSE 500],
      [k \in {Code_25NOV25} |-> 100],
      [k \in {} |-> 0] }
get_available_expiries_with_oi(asset) ==
    {Return(m) : m \in CycleMaps} \cup {Raise("ConnectionError")}

\* What get_deribit_price can give: the index price, or None when the request
\* fails (lines 82-84).
NoPrice == -1
get_deribit_price(asset) == {65000, NoPrice}

\* What get_deribit_options(asset, expiry) can give.  The instruments are those
\* of the asset whose name contains the text expiry (line 158; a code has no
\* dash, so it lies inside the code part of the name).  An instrument whose
\* book summary is missing or whose request fails is skipped (lines 174, 203);
\* the request of line 150 is outside the try.
OptionRow(i, expiry) ==
    [Expiry |-> expiry, Instrument |-> i.name, Strike |-> i.strike,
     Type |-> i.option_type, OI |-> i.oi]
RECURSIVE OptionRows(_, _, _)
OptionRows(insts, expiry, skipped) ==
    IF insts = <<>> THEN <<>>
    ELSE (IF Head(insts).name \in skipped THEN <<>>
          ELSE <<OptionRow(Head(insts), expiry)>>)
         \o OptionRows(Tail(insts), expiry, skipped)
get_deribit_options(asset, expiry) ==
    LET instruments ==
            SelectSeq(Listing, LAMBDA i : i.asset = asset /\ IsSubstring(expiry, i.code))
        names == {instruments[n].name : n \in 1..Len(instruments)}
    IN {Return(OptionRows(instruments, expiry, sk)) : sk \in SUBSET names}
           \cup {Raise("ConnectionError")}

\* The texts of a list, and the lists that hold each given text once, ordered
\* by date; where two texts are the same date sorted() keeps the order in
\* which the set hands them over, which is any.
Range(l) == {l[n] : n \in 1..Len(l)}
SortedByDate(l) ==
    \A m, n \in 1..Len(l) :
        m < n => ~IsoDateLess(Strptime(l[n]), Strptime(l[m]))

\* As resolved_expiries, the list being sorted without set().
resolved_expiries_NoSet(target_expiries, expiry_oi_map) ==
    LET bests == SelectSeq(
                     [n \in 1..Len(target_expiries) |->
                          select_best_expiry(target_expiries[n], expiry_oi_map).val],
                     LAMBDA b : b # None)
    IN { l \in [1..Len(bests) -> Range(bests)] :
           /\ \A c \in Range(bests) :
                  Cardinality({n \in 1..Len(l) : l[n] = c})
                      = Cardinality({n \in 1..Len(bests) : bests[n] = c})
           /\ SortedByDate(l) }

\* lines 227-233: the possible values of resolved_expiries
resolved_expiries(target_expiries, expiry_oi_map) ==
    LET bests == SelectSeq(
                     [n \in 1..Len(target_expiries) |->
                          select_best_expiry(target_expiries[n], expiry_oi_map).val],
                     LAMBDA b : b # None)
        codes == Range(bests)
    IN { l \in [1..Cardinality(codes) -> codes] :
           /\ Range(l) = codes
           /\ SortedByDate(l) }

\* What the run notes down for each asset it begins: whether the spot price
\* came, the codes it fetched, the codes it wrote, in order, and the exception
\* that ended the run there.
NewEntry == [spot |-> "", fetched |-> <<>>, written |-> <<>>, exc |-> ""]

asset == ASSETS[asset_no]
expiry == cyc_resolved[cyc_expiry_no]

\* An exception nothing catches leaves fetch_and_store_all_expiries.
CycleRaises(e) ==
    /\ cpc' = "crashed"
    /\ cyc_log' = [cyc_log EXCEPT ![asset_no].exc = e]

\* line 242: the next expiry of the loop, or the end of the asset's pass
GoToExpiry(n) ==
    IF n <= Len(cyc_resolved)
    THEN cyc_expiry_no' = n /\ cpc' = "fetch"
    ELSE cyc_expiry_no' = 0 /\ cpc' = "asset"

\* line 217: the next asset, or the end of the run
CycleNextAsset ==
    /\ cpc = "asset"
    /\ IF asset_no < Len(ASSETS)
       THEN /\ asset_no' = asset_no + 1
            /\ cyc_log' = Append(cyc_log, NewEntry)
            /\ cpc' = "targets"
       ELSE /\ cpc' = "done"
            /\ UNCHANGED <<asset_no, cyc_log>>
    /\ UNCHANGED <<cyc_targets, cyc_map, cyc_resolved, cyc_spot, cyc_expiry_no, cyc_df>>
    /\ UNCHANGED <<fpc, arg_now, arg_target, arg_map, ret>>
    /\ StoreIdle

\* line 221: calculate_target_expiries() reads the clock (line 27)
CycleTargets ==
    /\ cpc = "targets"
    /\ \E t \in SampleTimes :
           LET r == calculate_target_expiries([date |-> DateOfDay(now.day), time |-> t])
           IN IF r.exc # ""
              THEN CycleRaises(r.exc) /\ UNCHANGED cyc_targets
              ELSE /\ cyc_targets' = r.val
                   /\ cpc' = "listing"
                   /\ UNCHANGED cyc_log
    /\ UNCHANGED <<asset_no, cyc_map, cyc_resolved, cyc_spot, cyc_expiry_no, cyc_df>>
    /\ UNCHANGED <<fpc, arg_now, arg_target, arg_map, ret>>
    /\ StoreIdle

\* line 224
CycleListing ==
    /\ cpc = "listing"
    /\ \E o \in get_available_expiries_with_oi(asset) :
           IF o.exc # ""
           THEN CycleRaises(o.exc) /\ UNCHANGED cyc_map
           ELSE /\ cyc_map' = o.val
                /\ cpc' = "resolve"
                /\ UNCHANGED cyc_log
    /\ UNCHANGED <<asset_no, cyc_targets, cyc_resolved, cyc_spot, cyc_expiry_no, cyc_df>>
    /\ UNCHANGED <<fpc, arg_now, arg_target, arg_map, ret>>
    /\ StoreIdle

\* lines 227-233
CycleResolve ==
    /\ cpc = "resolve"
    /\ cyc_resolved' \in resolved_expiries(cyc_targets, cyc_map)
    /\ cpc' = "spot"
    /\ UNCHANGED <<asset_no, cyc_targets, cyc_map, cyc_spot, cyc_expiry_no, cyc_df, cyc_log>>
    /\ UNCHANGED <<fpc, arg_now, arg_target, arg_map, ret>>
    /\ StoreIdle

\* lines 236-239: without a spot price the asset is left (continue); line 242
CycleSpot ==
    /\ cpc = "spot"
    /\ \E p \in get_deribit_price(asset) :
           /\ cyc_spot' = p
           /\ IF p = NoPrice
              THEN /\ cyc_log' = [cyc_log EXCEPT ![asset_no].spot = "none"]
                   /\ cpc' = "asset"
                   /\ UNCHANGED cyc_expiry_no
              ELSE /\ cyc_log' = [cyc_log EXCEPT ![asset_no].spot = "ok"]
                   /\ GoToExpiry(1)
    /\ UNCHANGED <<asset_no, cyc_targets, cyc_map, cyc_resolved, cyc_df>>
    /\ UNCHANGED <<fpc, arg_now, arg_target, arg_map, ret>>
    /\ StoreIdle

\* lines 244-248: fetch the rows of one expiry; an empty frame is skipped
CycleFetch ==
    /\ cpc = "fetch"
    /\ \E o \in get_deribit_options(asset, expiry) :
           IF o.exc # ""
           THEN CycleRaises(o.exc) /\ UNCHANGED <<cyc_df, cyc_expiry_no>>
           ELSE /\ cyc_log' = [cyc_log EXCEPT ![asset_no].fetched = Append(@, expiry)]
                /\ cyc_df' = o.val
                /\ IF o.val = <<>>
                   THEN GoToExpiry(cyc_expiry_no + 1)
                   ELSE cpc' = "save" /\ UNCHANGED cyc_expiry_no
    /\ UNCHANGED <<asset_no, cyc_targets, cyc_map, cyc_resolved, cyc_spot>>
    /\ UNCHANGED <<fpc, arg_now, arg_target, arg_map, ret>>
    /\ StoreIdle

\* line 251: storage.save_snapshot(df, asset, spot_price); its exception is not
\* caught
CycleSave ==
    /\ cpc = "save"
    /\ save_snapshot(cyc_df, asset, cyc_spot)
    /\ IF save_ret'.exc # ""
       THEN CycleRaises(save_ret'.exc)
       ELSE /\ cyc_log' = [cyc_log EXCEPT ![asset_no].written = Append(@, expiry)]
            /\ cpc' = "sleep"
    /\ UNCHANGED <<asset_no, cyc_targets, cyc_map, cyc_resolved, cyc_spot,
                   cyc_expiry_no, cyc_df>>
    /\ UNCHANGED <<fpc, arg_now, arg_target, arg_map, ret>>

\* line 254: time.sleep(0.5), half a second passes; line 242
CycleSleep ==
    /\ cpc = "sleep"
    /\ ClockAdvances
    /\ GoToExpiry(cyc_expiry_no + 1)
    /\ UNCHANGED <<asset_no, cyc_targets, cyc_map, cyc_resolved, cyc_spot, cyc_df, cyc_log>>
    /\ UNCHANGED <<fpc, arg_now, arg_target, arg_map, ret>>

\* One run of fetch_and_store_all_expiries on an empty store (line 214 opens
\* the store), the clock going on between any two steps.
InitCycle ==
    /\ StoreInit
    /\ fpc = "off"
    /\ arg_now = <<>>
    /\ arg_target = <<>>
    /\ arg_map = <<>>
    /\ ret = NoCall
    /\ cpc = "asset"
    /\ asset_no = 0
    /\ cyc_targets = <<>>
    /\ cyc_map = <<>>
    /\ cyc_resolved = <<>>
    /\ cyc_spot = -1
    /\ cyc_expiry_no = 0
    /\ cyc_df = <<>>
    /\ cyc_log = <<>>

CycleNext ==
    \/ Tick
    \/ CycleNextAsset
    \/ CycleTargets
    \/ CycleListing
    \/ CycleResolve
    \/ CycleSpot
    \/ CycleFetch
    \/ CycleSave
    \/ CycleSleep

SpecCycle == InitCycle /\ [][CycleNext]_vars

-----------------------------------------------------------------------------
(* Properties of the pure functions.                                       *)

\* C8: settlement cutover.  When calculate_target_expiries is called on a Friday
\* it returns a result, whose near target is the code of today + 7 days when
\* the time is 08:00 UTC or later and the code of today when it is earlier.
C8_SettlementCutover ==
    (fpc = "done" /\ arg_now # <<>> /\ Weekday(arg_now.date) = 4)
        => /\ ret.exc = ""
           /\ ret.val[1] =
                  to_deribit_expiry(
                      IF arg_now.time[1] >= 8 THEN AddDays(arg_now.date, 7)
                      ELSE arg_now.date)

\* The keys of the listed map that are dates, and the days of one from the target.
ParsableKeys == {k \in DOMAIN arg_map : k \notin MalformedCodes}
DistanceDays(k) == Abs(ToOrdinal(Strptime(k)) - ToOrdinal(Strptime(arg_target)))

\* C9: for a well-formed target and a listed map with at least one parsable
\* code, select_best_expiry returns a parsable code of the map whose distance
\* in days to the target is minimal, and whose open interest is maximal among
\* the codes at that distance.
C9_ClosestThenLargestOi ==
    (fpc = "done" /\ arg_target \notin MalformedCodes /\ ParsableKeys # {})
        => /\ ret.exc = ""
           /\ ret.val \in ParsableKeys
           /\ \A k \in ParsableKeys :
                  /\ DistanceDays(ret.val) <= DistanceDays(k)
                  /\ DistanceDays(k) = DistanceDays(ret.val)
                       => arg_map[ret.val] >= arg_map[k]

\* A strictly closer code with the lower open interest has been returned.
C9_Witness ==
    /\ fpc = "done"
    /\ arg_target \notin MalformedCodes
    /\ ret.val \in ParsableKeys
    /\ \E k \in ParsableKeys :
           DistanceDays(k) > DistanceDays(ret.val) /\ arg_map[k] > arg_map[ret.val]
    /\ \E k \in ParsableKeys \ {ret.val} :
           DistanceDays(k) = DistanceDays(ret.val) /\ arg_map[k] < arg_map[ret.val]

\* The map without one of its keys.
WithoutKey(m, k) == [x \in DOMAIN m \ {k} |-> m[x]]

\* C10: select_best_expiry never fails on malformed codes.  It returns; a
\* malformed key of the map changes nothing (the result is the result for the
\* map without that key); and the result is None when the map is empty, when
\* every key is malformed, and when the target is malformed.
C10_MalformedCodesAreDiscarded ==
    fpc = "done" /\ arg_target # <<>>
        => /\ ret.exc = ""
           /\ \A k \in DOMAIN arg_map \cap MalformedCodes :
                  ret = select_best_expiry(arg_target, WithoutKey(arg_map, k))
           /\ DOMAIN arg_map = {} => ret.val = None
           /\ DOMAIN arg_map \subseteq MalformedCodes => ret.val = None
           /\ arg_target \in MalformedCodes => ret.val = None

\* A code has been returned from a map that holds a malformed key too.
C10_Witness ==
    /\ fpc = "done"
    /\ ret.exc = ""
    /\ ret.val # None
    /\ DOMAIN arg_map \cap MalformedCodes # {}

-----------------------------------------------------------------------------
(* Properties of a run of fetch_and_store_all_expiries.                    *)

NoDuplicate(l) == \A m, n \in 1..Len(l) : l[m] = l[n] => m = n

\* The codes the targets of the current asset resolve to.
BestCodes ==
    { select_best_expiry(cyc_targets[n], cyc_map).val : n \in 1..Len(cyc_targets) }
        \ {None}

\* C11: within one asset's cycle each resolved code is fetched and written at
\* most once, however many targets resolve to it.  No code occurs twice among
\* the fetches of an asset, nor among its writes, and only fetched codes are
\* written; and when the cycle of an asset that had a spot price has ended,
\* the number of its fetch passes is the number of distinct codes its targets
\* resolve to, each of them fetched.
C11_EachResolvedCodeOnce ==
    /\ \A a \in 1..Len(cyc_log) :
           /\ NoDuplicate(cyc_log[a].fetched)
           /\ NoDuplicate(cyc_log[a].written)
           /\ Range(cyc_log[a].written) \subseteq Range(cyc_log[a].fetched)
    /\ (cpc = "asset" /\ asset_no >= 1 /\ cyc_log[asset_no].spot = "ok")
         => /\ Len(cyc_log[asset_no].fetched) = Cardinality(BestCodes)
            /\ Range(cyc_log[asset_no].fetched) = BestCodes

\* The cycle of an asset has ended whose four targets resolve to two codes,
\* both fetched and written.
C11_Witness ==
    /\ cpc = "asset"
    /\ asset_no >= 1
    /\ Len(cyc_targets) = 4
    /\ Cardinality(BestCodes) = 2
    /\ Len(cyc_log[asset_no].fetched) = 2
    /\ Len(cyc_log[asset_no].written) = 2

\* C12: the caller filters out past-dated resolved expiries.  In a run no
\* expiry whose date is before the date of the clock is fetched, and no row
\* whose expiry_iso is before that date is written to live.db.
C12_Step ==
    /\ (cpc = "fetch" /\ cyc_log'[asset_no].fetched # cyc_log[asset_no].fetched)
         => ~IsoDateLess(Strptime(expiry), DateOfDay(now.day))
    /\ \A r \in live' \ live : ~IsoDateLess(r.expiry_iso, DateOfDay(now.day))

C12_PastExpiriesAreFiltered == [][C12_Step]_vars

\* C13: for every 'now', the list calculate_target_expiries returns holds
\* distinct dates only and is sorted ascending by date: each code of the list
\* is a date strictly before the date of every later code.
C13_TargetsDistinctAscending ==
    (fpc = "done" /\ arg_now # <<>> /\ ret.exc = "")
        => \A m, n \in 1..Len(ret.val) :
               m < n => IsoDateLess(Strptime(ret.val[m]), Strptime(ret.val[n]))

\* C14: for every 'now', calculate_target_expiries produces its four targets
\* (near, month_end, next_month_end, quarter_end), every one of them on or
\* after the date of 'now', the near target at most 7 days after it.
C14_TargetsNotBeforeToday ==
    (fpc = "done" /\ arg_now # <<>>)
        => /\ ret.exc = ""
           /\ Len(ret.val) = 4
           /\ \A n \in 1..Len(ret.val) :
                  ~IsoDateLess(Strptime(ret.val[n]), arg_now.date)
           /\ ToOrdinal(Strptime(ret.val[1])) - ToOrdinal(arg_now.date) <= 7

\* The same on the days where calculate_target_expiries returns.
C14_OnDaysThatReturn ==
    (fpc = "done" /\ arg_now # <<>> /\ ret.exc = "")
        => /\ Len(ret.val) = 4
           /\ \A n \in 1..Len(ret.val) :
                  ~IsoDateLess(Strptime(ret.val[n]), arg_now.date)
           /\ ToOrdinal(Strptime(ret.val[1])) - ToOrdinal(arg_now.date) <= 7

-----------------------------------------------------------------------------
(* Properties of save_snapshot.                                            *)

\* The rows of an asset at a timestamp: what a reader selects.
ReadBack(table, a, ts) == {r \in table : r.asset = a /\ r.timestamp = ts}

\* What a successful save_snapshot(df, a, p) of distinct instruments does to
\* the stores, the read-back apart: exactly Len(df) rows are added to live.db,
\* all with the one timestamp of the call, the asset and the spot price given,
\* and for each row of df one with its expiry, instrument, strike, type and
\* open interest; no row that was there is changed, in either store.
SaveAddsTheBatch(df, a, p) ==
    LET ts  == StampMs(now)
        new == live' \ live
    IN /\ Cardinality(new) = Len(df)
       /\ live \subseteq live'
       /\ archive' = archive
       /\ \A r \in new : r.timestamp = ts /\ r.asset = a /\ r.spot_price = p
       /\ \A i \in 1..Len(df) :
              \E r \in new : /\ r.expiry = df[i].Expiry
                             /\ r.instrument = df[i].Instrument
                             /\ r.strike = df[i].Strike
                             /\ r.type = df[i].Type
                             /\ r.oi = df[i].OI

DistinctInstruments(df) ==
    \A i, j \in 1..Len(df) : df[i].Instrument = df[j].Instrument => i = j

\* C15 (as claimed): a successful save_snapshot of n rows with n distinct
\* instruments adds exactly those n rows, changes no other row, and reading
\* back the rows of that asset at that timestamp yields exactly those n rows.
C15_Step_AsClaimed ==
    \A df \in Batches, a \in Assets, p \in SpotPrices :
        (SaveSnapshot(df, a, p) /\ save_ret'.exc = "" /\ DistinctInstruments(df))
            => /\ SaveAddsTheBatch(df, a, p)
               /\ ReadBack(live', a, StampMs(now)) = live' \ live

C15_RoundTripExactlyTheBatch == [][C15_Step_AsClaimed]_vars

\* C15 (amended): a successful save_snapshot of n rows with n distinct
\* instruments adds exactly those n rows and changes no other row; reading
\* back the rows of that asset at that timestamp yields those n rows together
\* with the rows of the asset stored at the same timestamp before the call,
\* and exactly those n rows when there was none.
C15_Step ==
    \A df \in Batches, a \in Assets, p \in SpotPrices :
        (SaveSnapshot(df, a, p) /\ save_ret'.exc = "" /\ DistinctInstruments(df))
            => /\ SaveAddsTheBatch(df, a, p)
               /\ ReadBack(live', a, StampMs(now))
                      = (live' \ live) \cup ReadBack(live, a, StampMs(now))
               /\ ReadBack(live, a, StampMs(now)) = {}
                      => ReadBack(live', a, StampMs(now)) = live' \ live

C15_RoundTrip == [][C15_Step]_vars

\* A batch of one row has just been saved at a timestamp at which a row of
\* the same asset was stored before.
C15_Witness ==
    /\ save_ret = Return(1)
    /\ Cardinality(ReadBack(live, "BTC", StampMs(now))) = 2

\* C17: a write that violates uniqueness is rejected as a whole.  When the
\* batch of a save_snapshot call holds the same instrument twice, or an
\* instrument that is already stored at the timestamp of the call, the call
\* raises to its caller and live.db is exactly what it was before the call.
C17_Step ==
    \A df \in Batches, a \in Assets, p \in SpotPrices :
        ( /\ SaveSnapshot(df, a, p)
          /\ \/ ~DistinctInstruments(df)
             \/ \E i \in 1..Len(df) : \E r \in live :
                    r.timestamp = StampMs(now) /\ r.instrument = df[i].Instrument )
            => /\ save_ret'.exc # ""
               /\ live' = live

C17_ViolatingWriteRejectedWhole == [][C17_Step]_vars

\* A batch holding the same instrument twice has just been refused by the
\* empty store, which is still empty.
C17_Witness ==
    /\ save_ret = Raise("IntegrityError")
    /\ live = {}
    /\ seq = 0

-----------------------------------------------------------------------------
(* Properties of a multi-asset run.                                        *)

\* The exceptions that are failures of the data source or of the store.
OutsideFailures == {"ConnectionError", "IntegrityError", "ValueError"}

\* C16: in a multi-asset run, when the spot price of an asset cannot be
\* obtained, no instrument is fetched and no row is written for that asset,
\* and every other asset of the run is still processed: when the run has
\* ended, and no failure of the data source or of the store has ended it, each
\* other asset has had its pass, up to its own spot price at least.
C16_SpotFailureSkipsOnlyThatAsset ==
    \A a \in 1..Len(cyc_log) :
        cyc_log[a].spot = "none"
            => /\ cyc_log[a].fetched = <<>>
               /\ cyc_log[a].written = <<>>
               /\ \A r \in live : r.asset # ASSETS[a]
               /\ ( /\ cpc \in {"done", "crashed"}
                    /\ \A b \in 1..Len(cyc_log) : cyc_log[b].exc \notin OutsideFailures )
                    => /\ Len(cyc_log) = Len(ASSETS)
                       /\ \A b \in 1..Len(ASSETS) : cyc_log[b].spot # ""

\* The part of C16 that is about the asset without a spot price: nothing is
\* fetched or written for it, and the run goes on to the next asset.
C16_Step_SpotFailure ==
    (cpc = "spot" /\ cyc_spot' = NoPrice /\ cpc' # cpc)
        => /\ cpc' = "asset"
           /\ cyc_log'[asset_no].fetched = <<>>
           /\ live' = live

C16_SpotFailureContinues == [][C16_Step_SpotFailure]_vars

-----------------------------------------------------------------------------
(* Properties of the sweep beside a writer, and of its failures.           *)

\* C18: in phase 1 of a sweep the rows deleted from live.db are exactly the
\* rows the same sweep copied into archive.db, for every interleaving of its
\* steps with a save_snapshot commit: when the DELETE has been executed, the
\* rows it removes are the rows selected and archived, so that no row written
\* between the SELECT and the DELETE is deleted without having been archived.
C18_DeletedAreTheArchived ==
    pc = "live_commit"
        => /\ live_tx = to_move_df
           /\ \A r \in live_tx : BagIn(r, archive)

\* C19: a failure inside a sweep is non-fatal.  No failure of the promote
\* phase or of the purge phase leaves maintain_db as an exception; and when
\* the compaction of a file has failed, the sweep goes on: to the compaction
\* of the other file and to its normal return.
C19_SweepFailureIsNonFatal ==
    /\ hist.exc = ""
    /\ "live.db" \in hist.warned => pc \in {"vacuum_archive", "return"}
    /\ "archive.db" \in hist.warned => pc = "return"

\* The part of C19 that is about the compaction.
C19_CompactionFailureIsNonFatal ==
    /\ "live.db" \in hist.warned => pc \in {"vacuum_archive", "return"}
    /\ "archive.db" \in hist.warned => pc = "return"

\* C20: in every sweep the compaction starts only after the promote and the
\* purge phase have finished, and runs while no write transaction of the
\* sweep is open.  When the sweep is at the VACUUM of either file: neither of
\* its connections has an uncommitted change; the rows it selected are no
\* longer in live.db, each of them being in archive.db unless the purge
\* condition holds of it; and archive.db holds no row the purge condition
\* holds of.
C20_CompactionAfterPhasesOutsideTransactions ==
    pc \in {"vacuum_live", "vacuum_archive"}
        => /\ live_tx = {}
           /\ arch_tx = EmptyTx
           /\ to_move_df \cap live = {}
           /\ \A r \in to_move_df :
                  BagIn(r, archive)
                      \/ TextTsLess(r.timestamp,
                                    [today_dt EXCEPT !.day = @ - archive_retain_days])
           /\ \A r \in BagToSet(archive) :
                  ~TextTsLess(r.timestamp,
                              [today_dt EXCEPT !.day = @ - archive_retain_days])

\* The sweep is at the VACUUM of live.db, having moved a row to archive.db
\* and purged a row from it.
C20_Witness ==
    /\ pc = "vacuum_live"
    /\ to_move_df # {}
    /\ rowcount > 0
    /\ \E r \in to_move_df : BagIn(r, archive)

====
